---- MODULE Spec2Model ----
(***************************************************************************)
(* A model of waybacknews/searchapi.py: SearchApiClient, the client of the *)
(* Wayback news search API.                                                *)
(*                                                                         *)
(* Python values are modelled as follows.                                  *)
(*   str      a sequence of chunks (TLA+ strings); a caller-supplied       *)
(*            string is a sequence of one-character chunks, a literal of   *)
(*            the source is one chunk.  str.format is concatenation.       *)
(*   dict     a function from keys (TLA+ strings) to values; a dict whose  *)
(*            iteration order matters is a sequence of <<key, value>>.     *)
(*   None     (an Optional) the empty sequence; a present value v is <<v>>.*)
(*   datetime a record [year, month, day, hour].                           *)
(*                                                                         *)
(* A call runs to its HTTP request in one step and from the response to    *)
(* its return, error or yield in another, so the calls of two threads      *)
(* interleave where the code blocks.  Every HTTP exchange completes with a *)
(* body that parses as JSON: the errors of the HTTP library (which the     *)
(* code lets through unchanged) are outside the model.                     *)
(***************************************************************************)
EXTENDS Integers, Sequences, FiniteSets, TLC

\* ------------------------------------------------------------------ bounds

\* The number of requests one all_items iteration may send in the bounded
\* specifications, and the length the histories are kept to.
MaxPages == 3

\* ------------------------------------------------------------- constants

VERSION == <<"v1">>

API_BASE_URL == <<"http://colsearch.sawood-dev.us.archive.org:8000/">> \o VERSION \o <<"/">>

NO_RESULTS_DETAIL == "No results found!"

RESUME_HEADER == "x-resume-token"

\* ------------------------------------------------------- pure operations

Digit(n) == CASE n = 0 -> "0" [] n = 1 -> "1" [] n = 2 -> "2" [] n = 3 -> "3"
              [] n = 4 -> "4" [] n = 5 -> "5" [] n = 6 -> "6" [] n = 7 -> "7"
              [] n = 8 -> "8" [] n = 9 -> "9"

\* strftime's %m and %d: two digits, zero padded.
Dec2(n) == <<Digit((n \div 10) % 10), Digit(n % 10)>>

\* strftime's %Y for the years 1000..9999.
Dec4(n) == <<Digit((n \div 1000) % 10), Digit((n \div 100) % 10)>> \o Dec2(n % 100)

\* date.strftime("%Y-%m-%d"): the calendar day, the time of day dropped.
Strftime(date) == Dec4(date.year) \o <<"-">> \o Dec2(date.month) \o <<"-">> \o Dec2(date.day)

\* _date_query_clause(start_date, end_date)
DateQueryClause(start_date, end_date) ==
    <<"publication_date:[">> \o Strftime(start_date) \o <<" TO ">>
        \o Strftime(end_date) \o <<"]">>

\* dict.update: the keys of `other` are added, and win over those of `d`.
DictUpdate(d, other) ==
    [k \in DOMAIN d \cup DOMAIN other |-> IF k \in DOMAIN other THEN other[k] ELSE d[k]]

\* d[key] = value
DictSet(d, key, value) == DictUpdate(d, key :> value)

\* A variant that merges in the other order: the built q wins over the caller's.
SearchParamsKwargsFirst(query, start_date, end_date, kwargs) ==
    DictUpdate(kwargs, [q |-> query \o <<" AND ">> \o DateQueryClause(start_date, end_date)])

\* params = {"q": "{} AND {}".format(query, clause)}; params.update(kwargs)
SearchParams(query, start_date, end_date, kwargs) ==
    DictUpdate([q |-> query \o <<" AND ">> \o DateQueryClause(start_date, end_date)], kwargs)

\* The endpoint paths, by plain interpolation of the arguments.
OverviewEndpoint(collection) == collection \o <<"/search/overview">>

ResultEndpoint(collection) == collection \o <<"/search/result">>

ArticleEndpoint(collection, item_id) == collection \o <<"/article/">> \o item_id

TermsEndpoint(collection, field, aggregation) ==
    collection \o <<"/terms/">> \o field \o <<"/">> \o aggregation

\* A variant that takes the method in either case.
SupportedMethodAnyCase(method) == method \in {"GET", "POST", "get", "post"}

\* _query's choice of call: a GET carries the parameters as the query string,
\* a POST as the JSON body; any other method sends nothing.
SupportedMethod(method) == method \in {"GET", "POST"}

\* The request _query hands to the HTTP library, the URL as the code built it
\* (the library leaves the reserved characters of a URL, "/" and "?", as they
\* are).
QueryRequest(endpoint, params, method) ==
    [method |-> method,
     url    |-> API_BASE_URL \o endpoint,
     via    |-> IF method = "GET" THEN "query" ELSE "json",
     params |-> params]

\* response.headers.get(name): None (the empty sequence) when absent.
HeadersGet(headers, name) == IF name \in DOMAIN headers THEN <<headers[name]>> ELSE <<>>

\* A variant that tests `is not None`: the empty string counts as a token.
TruthyNotNone(opt) == opt # <<>>

\* Python's truth value of an Optional[str]: None and "" are false.
Truthy(opt) == opt # <<>> /\ opt[1] # ""

\* A variant that does not look for matches.
IsNoResultsIgnoringMatches(results) ==
    /\ "detail" \in DOMAIN results
    /\ results["detail"] = NO_RESULTS_DETAIL

\* A variant with another sentinel text.
IsNoResultsTypo(results) ==
    /\ "matches" \notin DOMAIN results
    /\ "detail" \in DOMAIN results
    /\ results["detail"] = "No results found"

\* _is_no_results(results)
IsNoResults(results) ==
    /\ "matches" \notin DOMAIN results
    /\ "detail" \in DOMAIN results
    /\ results["detail"] = NO_RESULTS_DETAIL

\* The keys _is_no_results subscripts: `in` tests a key, results['detail']
\* reads one, and `and` stops at the first false operand.
IsNoResultsReads(results) ==
    IF "matches" \notin DOMAIN results /\ "detail" \in DOMAIN results
    THEN {"detail"} ELSE {}

\* What a call leaves its caller: a returned value v (held as <<v>>) or a
\* raised error (no value), with the envelope keys the call subscripted.
Return(type, value, reads) == [kind |-> "return", type |-> type, value |-> <<value>>, reads |-> reads]

Raise(error, reads) == [kind |-> "raise", type |-> error, value |-> <<>>, reads |-> reads]

NoOutcome == [kind |-> "none", type |-> "none", value |-> <<>>, reads |-> {}]

\* _dict_to_list(data): one {'name': k, 'value': v} per entry, in order.
DictToList(data) == [i \in 1..Len(data) |-> [name |-> data[i][1], value |-> data[i][2]]]

\* The value of a decimal digit.
DigitValue(c) == CHOOSE n \in 0..9 : Digit(n) = c

\* ciso8601.parse_datetime of a 'YYYY-MM-DD' key: midnight of that day.
ParseDatetime(day_date) ==
    [year  |-> 1000 * DigitValue(day_date[1]) + 100 * DigitValue(day_date[2])
                   + 10 * DigitValue(day_date[3]) + DigitValue(day_date[4]),
     month |-> 10 * DigitValue(day_date[6]) + DigitValue(day_date[7]),
     day   |-> 10 * DigitValue(day_date[9]) + DigitValue(day_date[10]),
     hour  |-> 0]

\* Days from 1970-01-01 to the civil date (proleptic Gregorian).
DaysFromCivil(y0, m, d) ==
    LET y   == IF m <= 2 THEN y0 - 1 ELSE y0
        era == y \div 400
        yoe == y - era * 400
        mp  == (m + 9) % 12
        doy == (153 * mp + 2) \div 5 + d - 1
        doe == yoe * 365 + yoe \div 4 - yoe \div 100 + doy
    IN  era * 146097 + doe - 719468

\* datetime.timestamp() of a naive datetime, the local zone taken as UTC.
Timestamp(day) == DaysFromCivil(day.year, day.month, day.day) * 86400 + day.hour * 3600

\* count_over_time's loop over dailycounts.items()
DailyCounts(data) ==
    [i \in 1..Len(data) |->
        LET day == ParseDatetime(data[i][1])
        IN  [date |-> day, timestamp |-> Timestamp(day), count |-> data[i][2]]]

\* A variant that reads with results.get(key, {}): a missing key gives an
\* empty value.
SubscriptGet(results, key, reads) ==
    IF key \in DOMAIN results
    THEN Return("value", results[key], reads \cup {key})
    ELSE Return("value", <<>>, reads \cup {key})

\* results[key]: a missing key raises KeyError.
Subscript(results, key, reads) ==
    IF key \in DOMAIN results
    THEN Return("value", results[key], reads \cup {key})
    ELSE Raise("KeyError", reads \cup {key})

\* What a method makes of the value it read.
Convert(how, v) ==
    CASE how = "as is"        -> v
      [] how = "dict_to_list" -> DictToList(v)
      [] how = "counts"       -> [counts |-> DailyCounts(v)]

\* `return f(results[key])`: an error raised by the subscript passes through.
Returning(type, how, got) ==
    IF got.kind = "raise" THEN got ELSE Return(type, Convert(how, got.value[1]), got.reads)

\* The six overview methods, from the envelope _overview_query returned.
SampleResult(results) ==
    IF IsNoResults(results) THEN Return("list", <<>>, IsNoResultsReads(results))
    ELSE Returning("list", "as is", Subscript(results, "matches", IsNoResultsReads(results)))

TopSourcesResult(results) ==
    IF IsNoResults(results) THEN Return("list", <<>>, IsNoResultsReads(results))
    ELSE Returning("list", "dict_to_list", Subscript(results, "topdomains", IsNoResultsReads(results)))

TopTldsResult(results) ==
    IF IsNoResults(results) THEN Return("list", <<>>, IsNoResultsReads(results))
    ELSE Returning("list", "dict_to_list", Subscript(results, "toptlds", IsNoResultsReads(results)))

TopLanguagesResult(results) ==
    IF IsNoResults(results) THEN Return("list", <<>>, IsNoResultsReads(results))
    ELSE Returning("list", "dict_to_list", Subscript(results, "toplangs", IsNoResultsReads(results)))

CountResult(results) ==
    IF IsNoResults(results) THEN Return("int", 0, IsNoResultsReads(results))
    ELSE Returning("int", "as is", Subscript(results, "total", IsNoResultsReads(results)))

CountOverTimeResult(results) ==
    IF IsNoResults(results) THEN Return("dict", <<>>, IsNoResultsReads(results))
    ELSE Returning("dict", "counts", Subscript(results, "dailycounts", IsNoResultsReads(results)))

OverviewMethods ==
    {"sample", "top_sources", "top_tlds", "top_languages", "count", "count_over_time"}

\* The method's code after _overview_query returns.
OverviewResult(method, results) ==
    CASE method = "sample"          -> SampleResult(results)
      [] method = "top_sources"     -> TopSourcesResult(results)
      [] method = "top_tlds"        -> TopTldsResult(results)
      [] method = "top_languages"   -> TopLanguagesResult(results)
      [] method = "count"           -> CountResult(results)
      [] method = "count_over_time" -> CountOverTimeResult(results)

\* ------------------------------------------------------------------ state

\* The threads of the program that use the one client.
Threads == {1, 2}

VARIABLES
    collection,  \* self._collection
    call,        \* per thread: the call in progress, its arguments and its place
    params,      \* per call frame: the local `params`
    sent,        \* per thread: the requests its call handed to the HTTP library
    recv,        \* per thread: the responses its call received
    pages,       \* per thread: the pages its all_items iteration yielded
    outcome      \* per thread: what its call returned or raised

vars == <<collection, call, params, sent, recv, pages, outcome>>

\* A variant that keeps `params` on the client, one for all its calls.
SharedFrame(t) == 1

\* `params` is a local of the call: each call has a frame of its own.
Frame(t) == t

NoHeaders == <<>>

NoResponse == [body |-> <<>>, headers |-> NoHeaders]

NoDate == [year |-> 1970, month |-> 1, day |-> 1, hour |-> 0]

NoArgs ==
    [query |-> <<>>, start_date |-> NoDate, end_date |-> NoDate, kwargs |-> <<>>,
     item_id |-> <<>>, field |-> <<>>, aggregation |-> <<>>, page_size |-> 1000,
     endpoint |-> <<>>, params |-> <<>>, method |-> "GET", results |-> <<>>]

Idle == [op |-> "none", pc |-> "idle", args |-> NoArgs, response |-> NoResponse]

\* A history keeps its first MaxPages entries.
Log(h, x) == IF Len(h) < MaxPages THEN Append(h, x) ELSE h

\* _query up to the HTTP call: the request goes out and the call blocks.
SendQuery(t, endpoint, method) ==
    sent' = [sent EXCEPT ![t] = Log(@, QueryRequest(endpoint, params'[Frame(t)], method))]

\* ---------------------------------------------------------------- inputs

Sentinel == NO_RESULTS_DETAIL

Doc1 == [title |-> "t1", url |-> "u1"]

Day20230101 == <<"2", "0", "2", "3", "-", "0", "1", "-", "0", "1">>

Day20230102 == <<"2", "0", "2", "3", "-", "0", "1", "-", "0", "2">>

\* The values the service sends under each key of an overview envelope.
KeyValues ==
    [matches     |-> {<<>>, <<Doc1>>},
     topdomains  |-> {<< <<"a.org", 3>>, <<"b.com", 1>> >>},
     toptlds     |-> {<< <<"org", 3>> >>},
     toplangs    |-> {<< <<"en", 4>>, <<"es", 2>> >>},
     total       |-> {5},
     dailycounts |-> {<< <<Day20230101, 5>>, <<Day20230102, 3>> >>},
     detail      |-> {Sentinel, "Not Found"}]

\* A key of an envelope: absent, or present with one of its values.
Entries(key) == {<<>>} \cup {key :> v : v \in KeyValues[key]}

\* Every envelope the service may send: each key present or not.
Envelopes ==
    {m @@ td @@ tt @@ tl @@ to @@ dc @@ de :
        m \in Entries("matches"), td \in Entries("topdomains"),
        tt \in Entries("toptlds"), tl \in Entries("toplangs"),
        to \in Entries("total"), dc \in Entries("dailycounts"),
        de \in Entries("detail")}

Date(y, m, d, h) == [year |-> y, month |-> m, day |-> d, hour |-> h]

\* What the callers and the service may supply: one record per specification.
FullInputs ==
    [queries      |-> {<<"a">>, <<"a", " ", "b">>},
     dates        |-> {Date(2023, 1, 9, 0), Date(2023, 11, 30, 17)},
     kwargs       |-> {<<>>, [q |-> <<"z">>], [resume |-> "r0"], [rows |-> 10]},
     envelopes    |-> Envelopes,
     documents    |-> {[matches |-> <<Doc1>>], [detail |-> Sentinel]},
     headers      |-> {NoHeaders, RESUME_HEADER :> "", RESUME_HEADER :> "abc",
                       RESUME_HEADER :> "def"},
     methods      |-> {"GET", "POST", "PUT", "get"},
     item_ids     |-> {<<"7">>, <<"x", "/", "y">>},
     fields       |-> {<<"title">>, <<"snippet">>},
     aggregations |-> {<<"top">>, <<"rare">>},
     page_sizes   |-> {1000, 50},
     bounded      |-> TRUE]

\* Fewer inputs, for two threads at once.
LeanInputs ==
    [queries      |-> {<<"a">>},
     dates        |-> {Date(2023, 1, 9, 0)},
     kwargs       |-> {<<>>, [resume |-> "r0"]},
     envelopes    |-> {[detail |-> Sentinel], [total |-> 5, matches |-> <<Doc1>>]},
     documents    |-> {[matches |-> <<Doc1>>]},
     headers      |-> {NoHeaders, RESUME_HEADER :> "abc", RESUME_HEADER :> "def"},
     methods      |-> {"GET", "PUT"},
     item_ids     |-> {<<"7">>},
     fields       |-> {<<"title">>},
     aggregations |-> {<<"top">>},
     page_sizes   |-> {1000},
     bounded      |-> TRUE]

\* The iteration of all_items not bounded: the service may send a token forever.
LiveInputs == [FullInputs EXCEPT !.bounded = FALSE,
                                 !.envelopes = LeanInputs.envelopes,
                                 !.dates = LeanInputs.dates]

\* --------------------------------------------------------------- actions

Init ==
    /\ collection \in {<<"m", "c">>, <<"a", "/", "b">>}
    /\ call = [t \in Threads |-> Idle]
    /\ params = [t \in Threads |-> <<>>]
    /\ sent = [t \in Threads |-> <<>>]
    /\ recv = [t \in Threads |-> <<>>]
    /\ pages = [t \in Threads |-> <<>>]
    /\ outcome = [t \in Threads |-> NoOutcome]

\* _overview_query(query, start_date, end_date, **kwargs), called by `method`,
\* up to the HTTP call.
OverviewQuery(t, W, method) ==
    /\ call[t].pc = "idle"
    /\ \E query \in W.queries, start_date \in W.dates, end_date \in W.dates,
          kwargs \in W.kwargs :
        /\ call' = [call EXCEPT ![t] =
                      [Idle EXCEPT !.op = method, !.pc = "awaiting",
                          !.args = [NoArgs EXCEPT !.query = query, !.start_date = start_date,
                                       !.end_date = end_date, !.kwargs = kwargs]]]
        /\ params' = [params EXCEPT ![Frame(t)] =
                        SearchParams(query, start_date, end_date, kwargs)]
    /\ SendQuery(t, OverviewEndpoint(collection), "POST")
    /\ UNCHANGED <<collection, recv, pages, outcome>>

Sample(t, W) == OverviewQuery(t, W, "sample")

TopSources(t, W) == OverviewQuery(t, W, "top_sources")

TopTlds(t, W) == OverviewQuery(t, W, "top_tlds")

TopLanguages(t, W) == OverviewQuery(t, W, "top_languages")

Count(t, W) == OverviewQuery(t, W, "count")

CountOverTime(t, W) == OverviewQuery(t, W, "count_over_time")

\* item(item_id), up to the HTTP call: _query's params stays None, which the
\* HTTP library sends as no parameters at all, like the empty mapping.
Item(t, W) ==
    /\ call[t].pc = "idle"
    /\ \E item_id \in W.item_ids :
        call' = [call EXCEPT ![t] =
                   [Idle EXCEPT !.op = "item", !.pc = "awaiting",
                       !.args = [NoArgs EXCEPT !.item_id = item_id]]]
    /\ params' = [params EXCEPT ![Frame(t)] = <<>>]
    /\ SendQuery(t, ArticleEndpoint(collection, call'[t].args.item_id), "GET")
    /\ UNCHANGED <<collection, recv, pages, outcome>>

\* terms(query, start_date, end_date, field, aggregation, **kwargs), up to the
\* HTTP call.
Terms(t, W) ==
    /\ call[t].pc = "idle"
    /\ \E query \in W.queries, start_date \in W.dates, end_date \in W.dates,
          kwargs \in W.kwargs, field \in W.fields, aggregation \in W.aggregations :
        /\ call' = [call EXCEPT ![t] =
                      [Idle EXCEPT !.op = "terms", !.pc = "awaiting",
                          !.args = [NoArgs EXCEPT !.query = query, !.start_date = start_date,
                                       !.end_date = end_date, !.kwargs = kwargs,
                                       !.field = field, !.aggregation = aggregation]]]
        /\ params' = [params EXCEPT ![Frame(t)] =
                        SearchParams(query, start_date, end_date, kwargs)]
        /\ SendQuery(t, TermsEndpoint(collection, field, aggregation), "GET")
    /\ UNCHANGED <<collection, recv, pages, outcome>>

\* A variant that is no generator up to its first request: the call itself
\* sends the first request.
AllItemsEager(t, W) ==
    /\ call[t].pc = "idle"
    /\ \E query \in W.queries, start_date \in W.dates, end_date \in W.dates,
          kwargs \in W.kwargs, page_size \in W.page_sizes :
        /\ call' = [call EXCEPT ![t] =
                      [Idle EXCEPT !.op = "all_items", !.pc = "created",
                          !.args = [NoArgs EXCEPT !.query = query, !.start_date = start_date,
                                       !.end_date = end_date, !.kwargs = kwargs,
                                       !.page_size = page_size]]]
        /\ params' = [params EXCEPT ![Frame(t)] =
                        SearchParams(query, start_date, end_date, kwargs)]
    /\ SendQuery(t, ResultEndpoint(collection), "POST")
    /\ UNCHANGED <<collection, recv, pages, outcome>>

\* all_items(query, start_date, end_date, page_size, **kwargs): the call makes
\* the generator and runs none of its body.
AllItems(t, W) ==
    /\ call[t].pc = "idle"
    /\ \E query \in W.queries, start_date \in W.dates, end_date \in W.dates,
          kwargs \in W.kwargs, page_size \in W.page_sizes :
        call' = [call EXCEPT ![t] =
                   [Idle EXCEPT !.op = "all_items", !.pc = "created",
                       !.args = [NoArgs EXCEPT !.query = query, !.start_date = start_date,
                                    !.end_date = end_date, !.kwargs = kwargs,
                                    !.page_size = page_size]]]
    /\ UNCHANGED <<collection, params, sent, recv, pages, outcome>>

\* next() on a generator not yet started: the body runs to the first HTTP call.
NextFirst(t, W) ==
    /\ call[t].op = "all_items"
    /\ call[t].pc = "created"
    /\ W.bounded => Len(sent[t]) < MaxPages
    /\ call' = [call EXCEPT ![t].pc = "awaiting"]
    /\ params' = [params EXCEPT ![Frame(t)] =
                    SearchParams(call[t].args.query, call[t].args.start_date,
                                 call[t].args.end_date, call[t].args.kwargs)]
    /\ SendQuery(t, ResultEndpoint(collection), "POST")
    /\ UNCHANGED <<collection, recv, pages, outcome>>

\* A variant that never resets more_pages: the loop goes on without a token.
NextAfterYieldNoReset(t, W) ==
    /\ call[t].op = "all_items"
    /\ call[t].pc = "yielded"
    /\ W.bounded => Len(sent[t]) < MaxPages
    /\ LET next_link_token == HeadersGet(call[t].response.headers, RESUME_HEADER)
       IN  params' = [params EXCEPT ![Frame(t)] =
                        IF Truthy(next_link_token)
                        THEN DictSet(@, "resume", next_link_token[1]) ELSE @]
    /\ call' = [call EXCEPT ![t].pc = "awaiting"]
    /\ SendQuery(t, ResultEndpoint(collection), "POST")
    /\ UNCHANGED <<collection, recv, pages, outcome>>

\* next() on a generator suspended at its yield: the header of the response
\* that produced the page decides between one more request and the end.
NextAfterYield(t, W) ==
    /\ call[t].op = "all_items"
    /\ call[t].pc = "yielded"
    /\ LET next_link_token == HeadersGet(call[t].response.headers, RESUME_HEADER)
       IN  IF Truthy(next_link_token)
           THEN /\ W.bounded => Len(sent[t]) < MaxPages
                /\ params' = [params EXCEPT ![Frame(t)] =
                                DictSet(@, "resume", next_link_token[1])]
                /\ call' = [call EXCEPT ![t].pc = "awaiting"]
                /\ SendQuery(t, ResultEndpoint(collection), "POST")
           ELSE /\ call' = [call EXCEPT ![t].pc = "done"]
                /\ UNCHANGED <<params, sent>>
    /\ UNCHANGED <<collection, recv, pages, outcome>>

\* _query(endpoint, params, method), called directly, up to the HTTP call or
\* to the error for a method it does not support.
Query(t, W) ==
    /\ call[t].pc = "idle"
    /\ \E endpoint \in {OverviewEndpoint(collection), <<"x">>},
          p \in W.kwargs, method \in W.methods :
        /\ params' = [params EXCEPT ![Frame(t)] = p]
        /\ IF SupportedMethod(method)
           THEN /\ call' = [call EXCEPT ![t] =
                              [Idle EXCEPT !.op = "_query", !.pc = "awaiting",
                                  !.args = [NoArgs EXCEPT !.endpoint = endpoint,
                                               !.params = p, !.method = method]]]
                /\ SendQuery(t, endpoint, method)
                /\ UNCHANGED outcome
           ELSE /\ call' = [call EXCEPT ![t] =
                              [Idle EXCEPT !.op = "_query", !.pc = "raised",
                                  !.args = [NoArgs EXCEPT !.endpoint = endpoint,
                                               !.params = p, !.method = method]]]
                /\ outcome' = [outcome EXCEPT ![t] = Raise("RuntimeError", {})]
                /\ UNCHANGED sent
    /\ UNCHANGED <<collection, recv, pages>>

\* _is_no_results(results), a static method, called directly.
IsNoResultsCall(t, W) ==
    /\ call[t].pc = "idle"
    /\ \E results \in W.envelopes :
        /\ call' = [call EXCEPT ![t] =
                      [Idle EXCEPT !.op = "_is_no_results", !.pc = "returned",
                          !.args = [NoArgs EXCEPT !.results = results]]]
        /\ outcome' = [outcome EXCEPT ![t] =
                         Return("bool", IsNoResults(results), IsNoResultsReads(results))]
    /\ UNCHANGED <<collection, params, sent, recv, pages>>

\* The bodies and headers the service may answer a call with: the resume
\* header belongs to the result endpoint.
Bodies(op, W) == IF op \in OverviewMethods THEN W.envelopes ELSE W.documents

Headers(op, W) == IF op \in {"all_items", "_query"} THEN W.headers ELSE {NoHeaders}

\* What the call makes of the parsed body and the raw response.
Completion(op, body, response) ==
    CASE op \in OverviewMethods   -> OverviewResult(op, body)
      [] op \in {"item", "terms"} -> Return("envelope", body, {})
      [] op = "_query"            -> Return("tuple", <<body, response>>, {})
      [] op = "all_items"         -> NoOutcome

\* The HTTP call returns: _query returns (r.json(), r) and the caller runs on,
\* to its return, its error or its yield.
Respond(t, W) ==
    /\ call[t].pc = "awaiting"
    /\ \E body \in Bodies(call[t].op, W), headers \in Headers(call[t].op, W) :
        LET response == [body |-> body, headers |-> headers]
            result   == Completion(call[t].op, body, response)
        IN  /\ recv' = [recv EXCEPT ![t] = Log(@, response)]
            /\ outcome' = [outcome EXCEPT ![t] = result]
            /\ IF call[t].op = "all_items"
               THEN /\ pages' = [pages EXCEPT ![t] = Log(@, body)]
                    /\ call' = [call EXCEPT ![t].pc = "yielded", ![t].response = response]
               ELSE /\ pages' = pages
                    /\ call' = [call EXCEPT
                                  ![t].pc = IF result.kind = "raise" THEN "raised" ELSE "returned",
                                  ![t].response = response]
    /\ UNCHANGED <<collection, params, sent>>

\* The caller is done with its call (or drops its generator): the frame and
\* all it held are gone.
Finish(t) ==
    /\ call[t].pc \in {"returned", "raised", "done", "yielded", "created"}
    /\ call' = [call EXCEPT ![t] = Idle]
    /\ params' = [params EXCEPT ![Frame(t)] = <<>>]
    /\ sent' = [sent EXCEPT ![t] = <<>>]
    /\ recv' = [recv EXCEPT ![t] = <<>>]
    /\ pages' = [pages EXCEPT ![t] = <<>>]
    /\ outcome' = [outcome EXCEPT ![t] = NoOutcome]
    /\ UNCHANGED collection

Step(t, W) ==
    \/ Sample(t, W)
    \/ TopSources(t, W)
    \/ TopTlds(t, W)
    \/ TopLanguages(t, W)
    \/ Count(t, W)
    \/ CountOverTime(t, W)
    \/ Item(t, W)
    \/ Terms(t, W)
    \/ AllItems(t, W)
    \/ NextFirst(t, W)
    \/ NextAfterYield(t, W)
    \/ Query(t, W)
    \/ IsNoResultsCall(t, W)
    \/ Respond(t, W)
    \/ Finish(t)

\* One thread uses the client.
Next == Step(1, FullInputs)

Spec == Init /\ [][Next]_vars

\* Two threads use the one client, their calls interleaved at every HTTP call
\* and every yield.
ConcNext == \E t \in Threads : Step(t, LeanInputs)

ConcSpec == Init /\ [][ConcNext]_vars

\* One thread, the iteration not cut short: the service always answers, and a
\* consumer that holds a generator pulls again.
LiveNext == Step(1, LiveInputs)

LiveSpec ==
    /\ Init
    /\ [][LiveNext]_vars
    /\ WF_vars(Respond(1, LiveInputs))
    /\ WF_vars(NextFirst(1, LiveInputs))
    /\ WF_vars(NextAfterYield(1, LiveInputs))

\* ---------------------------------------------------------------- claims

IsIteration(t) == call[t].op = "all_items"

\* The response carries an x-resume-token header that is present and non-empty.
CarriesToken(response) ==
    /\ "x-resume-token" \in DOMAIN response.headers
    /\ response.headers["x-resume-token"] # ""

\* Every request of the iteration is a POST to <collection>/search/result.
PostsToResult(t) ==
    \A k \in 1..Len(sent[t]) :
        /\ sent[t][k].method = "POST"
        /\ sent[t][k].via = "json"
        /\ sent[t][k].url = API_BASE_URL \o collection \o <<"/search/result">>

\* A request after the first follows a response that carried a token, and its
\* resume is that token, the one of the response just before it.
ResumesWithPrecedingToken(t) ==
    \A k \in 2..Len(sent[t]) :
        /\ CarriesToken(recv[t][k - 1])
        /\ "resume" \in DOMAIN sent[t][k].params
        /\ sent[t][k].params["resume"] = recv[t][k - 1].headers["x-resume-token"]

\* The iteration has ended only after a response without a token.
EndsWithoutToken(t) ==
    call[t].pc = "done" =>
        /\ Len(recv[t]) = Len(sent[t])
        /\ Len(recv[t]) >= 1
        /\ ~CarriesToken(recv[t][Len(recv[t])])

\* First response with token "abc", second with no header: two pages, no more.
AbcThenNone(t) ==
    /\ Len(recv[t]) >= 2
    /\ recv[t][1].headers = (RESUME_HEADER :> "abc")
    /\ recv[t][2].headers = NoHeaders

TwoPagesForAbcThenNone(t) ==
    AbcThenNone(t) =>
        /\ Len(pages[t]) = 2
        /\ Len(sent[t]) = 2
        /\ sent[t][2].params["resume"] = "abc"

\* The first request carries a resume only if the caller passed one.
FirstResumeIsCallers(t) ==
    Len(sent[t]) >= 1 =>
        /\ "resume" \in DOMAIN sent[t][1].params <=> "resume" \in DOMAIN call[t].args.kwargs
        /\ "resume" \in DOMAIN call[t].args.kwargs =>
               sent[t][1].params["resume"] = call[t].args.kwargs["resume"]

\* The first request carries no resume.
FirstHasNoResume(t) ==
    Len(sent[t]) >= 1 => "resume" \notin DOMAIN sent[t][1].params

\* C1 (as amended): in all_items the iteration goes on with another POST to
\* <collection>/search/result if and only if the response that produced the
\* page carried a present, non-empty x-resume-token; the next request's resume
\* is that token, replacing any older one; the first request carries a resume
\* only when the caller passed one as a keyword argument; and a first response
\* with token "abc" followed by one without the header gives exactly two pages.
C1_ResumeContinuation ==
    \A t \in Threads :
        IsIteration(t) =>
            /\ PostsToResult(t)
            /\ ResumesWithPrecedingToken(t)
            /\ EndsWithoutToken(t)
            /\ TwoPagesForAbcThenNone(t)
            /\ FirstResumeIsCallers(t)

\* C1 as stated: the same, with the first request never carrying a resume.
C1_Original ==
    \A t \in Threads :
        IsIteration(t) =>
            /\ PostsToResult(t)
            /\ ResumesWithPrecedingToken(t)
            /\ EndsWithoutToken(t)
            /\ TwoPagesForAbcThenNone(t)
            /\ FirstHasNoResume(t)

\* The iteration of "abc" then no header has ended, the caller having passed
\* a resume of its own.
C1_Witness ==
    /\ IsIteration(1)
    /\ call[1].pc = "done"
    /\ AbcThenNone(1)
    /\ Len(pages[1]) = 2
    /\ "resume" \in DOMAIN call[1].args.kwargs

\* No page follows a response without a token (the histories are prefixes).
NoPageAfterTokenless(t) ==
    \A k \in 1..(Len(recv[t]) - 1) : CarriesToken(recv[t][k])

\* The iteration has not gone past a response without a token, and has not
\* ended after one with a token.
EndsAtFirstTokenless ==
    \A t \in Threads :
        IsIteration(t) =>
            /\ NoPageAfterTokenless(t)
            /\ call[t].pc = "done" => ~CarriesToken(call[t].response)

\* Once a page came without a token, the consumer that pulls again is at the
\* end of the iteration.
EndsOnceTokenless ==
    \A t \in Threads :
        (IsIteration(t) /\ call[t].pc = "yielded" /\ ~CarriesToken(call[t].response))
            ~> (call[t].pc = "done" \/ ~IsIteration(t))

\* C2 (as amended): the iteration of all_items ends at the first response that
\* returns no resume token (none, or an empty one) and not before: a consumer
\* that keeps pulling reaches the end once the service has sent such a
\* response, and the sequence is finite only if it does.
C2_EndsAtFirstTokenless == []EndsAtFirstTokenless /\ EndsOnceTokenless

\* A consumer that has not dropped its generator reaches the end of it.
C2_Terminates ==
    \A t \in Threads :
        IsIteration(t) ~> (call[t].pc = "done" \/ ~IsIteration(t))

\* C2 as stated: for every sequence of responses the iteration is finite, and
\* it ends at the first response without a token.
C2_Original == []EndsAtFirstTokenless /\ C2_Terminates

\* An iteration has ended after several pages.
C2_Witness ==
    /\ IsIteration(1)
    /\ call[1].pc = "done"
    /\ Len(recv[1]) >= 2
    /\ call[1].response.headers = (RESUME_HEADER :> "")

\* The call of thread t is one of the six overview methods and is over.
OverviewOver(t) ==
    /\ call[t].op \in OverviewMethods
    /\ call[t].pc \in {"returned", "raised"}

\* The envelope the call of thread t received.
EnvelopeOf(t) == recv[t][1].body

\* A no-results envelope: no matches key, and detail the service's sentinel.
NoResultsEnvelope(e) ==
    /\ "matches" \notin DOMAIN e
    /\ "detail" \in DOMAIN e
    /\ e["detail"] = "No results found!"

\* The key each overview method reads.
KeyRead(method) ==
    CASE method = "sample"          -> "matches"
      [] method = "top_sources"     -> "topdomains"
      [] method = "top_tlds"        -> "toptlds"
      [] method = "top_languages"   -> "toplangs"
      [] method = "count"           -> "total"
      [] method = "count_over_time" -> "dailycounts"

\* The empty value of each overview method: [] (list), 0 (int), {} (dict).
EmptyType(method) ==
    CASE method = "count"           -> "int"
      [] method = "count_over_time" -> "dict"
      [] OTHER                      -> "list"

EmptyValue(method) == IF method = "count" THEN <<0>> ELSE << <<>> >>

\* C3: for a no-results envelope, sample, top_sources, top_tlds and
\* top_languages return the empty list, count returns 0 and count_over_time
\* the empty mapping; none raises, and none reads matches, topdomains, toptlds,
\* toplangs, total or dailycounts from the envelope.
C3_NoResultsShortCircuit ==
    \A t \in Threads :
        (OverviewOver(t) /\ NoResultsEnvelope(EnvelopeOf(t))) =>
            /\ call[t].pc = "returned"
            /\ outcome[t].kind = "return"
            /\ outcome[t].type = EmptyType(call[t].op)
            /\ outcome[t].value = EmptyValue(call[t].op)
            /\ outcome[t].reads \cap {"matches", "topdomains", "toptlds", "toplangs",
                                      "total", "dailycounts"} = {}

\* count_over_time has returned {} for a no-results envelope that does hold
\* dailycounts and total.
C3_Witness ==
    /\ call[1].op = "count_over_time"
    /\ call[1].pc = "returned"
    /\ NoResultsEnvelope(EnvelopeOf(1))
    /\ {"dailycounts", "total"} \subseteq DOMAIN EnvelopeOf(1)
    /\ outcome[1].type = "dict"
    /\ outcome[1].value = << <<>> >>

\* C4: _is_no_results(envelope) is true if and only if the envelope has no
\* matches key and has a detail key whose value is exactly 'No results found!':
\* a matches key makes it false whatever detail says, and so does no detail.
C4_IsNoResultsIff ==
    \A t \in Threads :
        (call[t].op = "_is_no_results" /\ call[t].pc = "returned") =>
            LET e == call[t].args.results
            IN  /\ outcome[t].kind = "return"
                /\ outcome[t].type = "bool"
                /\ outcome[t].value = <<NoResultsEnvelope(e)>>
                /\ "matches" \in DOMAIN e => outcome[t].value = <<FALSE>>
                /\ "detail" \notin DOMAIN e => outcome[t].value = <<FALSE>>
                /\ e = [detail |-> "No results found!"] => outcome[t].value = <<TRUE>>

\* _is_no_results has answered false for {'matches': [], 'detail': sentinel}.
C4_Witness ==
    /\ call[1].op = "_is_no_results"
    /\ call[1].pc = "returned"
    /\ call[1].args.results = [matches |-> <<>>, detail |-> "No results found!"]
    /\ outcome[1].value = <<FALSE>>

\* C5: _query with a method other than 'GET' or 'POST' fails with the
\* unsupported-method error, no request sent; with 'GET' or 'POST' exactly one
\* request is sent, to base_url + endpoint.
C5_UnsupportedMethodSendsNothing ==
    \A t \in Threads :
        call[t].op = "_query" =>
            IF call[t].args.method \in {"GET", "POST"}
            THEN /\ call[t].pc \in {"awaiting", "returned"}
                 /\ Len(sent[t]) = 1
                 /\ sent[t][1].method = call[t].args.method
                 /\ sent[t][1].url = API_BASE_URL \o call[t].args.endpoint
                 /\ sent[t][1].params = call[t].args.params
            ELSE /\ call[t].pc = "raised"
                 /\ outcome[t].kind = "raise"
                 /\ outcome[t].type = "RuntimeError"
                 /\ sent[t] = <<>>
                 /\ recv[t] = <<>>

\* _query has raised for the method 'get' (the comparison is case-sensitive).
C5_Witness ==
    /\ call[1].op = "_query"
    /\ call[1].args.method = "get"
    /\ call[1].pc = "raised"
    /\ sent[1] = <<>>

\* The calls that send a search: the overview methods, terms and all_items.
SearchBearing(t) == call[t].op \in OverviewMethods \cup {"terms", "all_items"}

\* The q the call must send: the caller's, or the query and the date range.
ExpectedQ(a) ==
    IF "q" \in DOMAIN a.kwargs THEN a.kwargs["q"]
    ELSE a.query \o <<" AND ">> \o <<"publication_date:[">> \o Strftime(a.start_date)
             \o <<" TO ">> \o Strftime(a.end_date) \o <<"]">>

\* Request k of thread t may carry a resume of the iteration's own.
OwnResume(t, k) == call[t].op = "all_items" /\ k > 1

KeysSent(t, k) ==
    {"q"} \cup DOMAIN call[t].args.kwargs \cup (IF OwnResume(t, k) THEN {"resume"} ELSE {})

\* The q and the keys of every request of a search-bearing call.
SendsQAndCallersKeys(t) ==
    \A k \in 1..Len(sent[t]) :
        /\ DOMAIN sent[t][k].params = KeysSent(t, k)
        /\ sent[t][k].params["q"] = ExpectedQ(call[t].args)
        /\ "page_size" \notin DOMAIN sent[t][k].params

\* C6 (as amended): every search-bearing call sends q = "<query> AND
\* publication_date:[<start> TO <end>]" unless the caller passed q among the
\* extra keyword arguments, whose q is then sent; every other extra keyword
\* argument is sent with its value unchanged, except a caller's resume in the
\* requests of all_items after the first, where the preceding response's token
\* replaces it; the mapping has no keys besides q, the caller's extra keys and
\* (all_items after the first request) resume, and all_items' declared
\* page_size parameter is not sent.
C6_ParamsMerged ==
    \A t \in Threads :
        SearchBearing(t) =>
            /\ SendsQAndCallersKeys(t)
            /\ \A k \in 1..Len(sent[t]) :
                   \A key \in DOMAIN call[t].args.kwargs \ {"q"} :
                       (key = "resume" /\ OwnResume(t, k))
                       \/ sent[t][k].params[key] = call[t].args.kwargs[key]

\* C6 as stated: every caller keyword argument but q is sent unchanged in
\* every request.
C6_Original ==
    \A t \in Threads :
        SearchBearing(t) =>
            /\ SendsQAndCallersKeys(t)
            /\ \A k \in 1..Len(sent[t]) :
                   \A key \in DOMAIN call[t].args.kwargs \ {"q"} :
                       sent[t][k].params[key] = call[t].args.kwargs[key]

\* An iteration whose caller passed a resume has sent its second request: the
\* built q, and the token of the first response in place of the caller's resume.
C6_Witness ==
    /\ IsIteration(1)
    /\ call[1].args.kwargs = [resume |-> "r0"]
    /\ Len(sent[1]) = 2
    /\ sent[1][1].params["resume"] = "r0"
    /\ sent[1][2].params["resume"] = "abc"
    /\ sent[1][2].params["q"] = ExpectedQ(call[1].args)

\* C7: when the envelope is not a no-results envelope and lacks the key the
\* method reads, the method fails with an error and returns no value; so do
\* count and the top_* methods for an envelope with matches and the sentinel.
C7_MissingKeyRaises ==
    \A t \in Threads :
        (/\ OverviewOver(t)
         /\ ~NoResultsEnvelope(EnvelopeOf(t))
         /\ KeyRead(call[t].op) \notin DOMAIN EnvelopeOf(t)) =>
            /\ call[t].pc = "raised"
            /\ outcome[t].kind = "raise"
            /\ outcome[t].type = "KeyError"
            /\ outcome[t].value = <<>>

\* count has raised for an envelope with matches and the sentinel, no total.
C7_Witness ==
    /\ call[1].op = "count"
    /\ call[1].pc = "raised"
    /\ {"matches", "detail"} \subseteq DOMAIN EnvelopeOf(1)
    /\ EnvelopeOf(1)["detail"] = "No results found!"
    /\ "total" \notin DOMAIN EnvelopeOf(1)
    /\ outcome[1].type = "KeyError"

\* The parameters request k of the iteration of thread t carries when the
\* iteration runs alone against the responses it received.
AloneParams(t, k) ==
    LET a     == call[t].args
        first == SearchParams(a.query, a.start_date, a.end_date, a.kwargs)
    IN  IF k = 1 THEN first
        ELSE DictSet(first, "resume", recv[t][k - 1].headers[RESUME_HEADER])

\* The requests the call of thread t sends when it runs alone.
AloneRequest(t, k) ==
    LET a == call[t].args
    IN  CASE call[t].op \in OverviewMethods ->
                 QueryRequest(OverviewEndpoint(collection), AloneParams(t, 1), "POST")
          [] call[t].op = "terms" ->
                 QueryRequest(TermsEndpoint(collection, a.field, a.aggregation),
                              AloneParams(t, 1), "GET")
          [] call[t].op = "item" ->
                 QueryRequest(ArticleEndpoint(collection, a.item_id), <<>>, "GET")
          [] call[t].op = "_query" ->
                 QueryRequest(a.endpoint, a.params, a.method)
          [] call[t].op = "all_items" ->
                 QueryRequest(ResultEndpoint(collection), AloneParams(t, k), "POST")

\* The call of thread t has sent what it sends alone, and has returned what
\* it returns alone for the responses it received.
AsAlone(t) ==
    /\ \A k \in 1..Len(sent[t]) : sent[t][k] = AloneRequest(t, k)
    /\ \A k \in 1..Len(pages[t]) : pages[t][k] = recv[t][k].body
    /\ (call[t].pc \in {"returned", "raised"} /\ recv[t] # <<>>) =>
           outcome[t] = Completion(call[t].op, recv[t][1].body, recv[t][1])
    /\ call[t].op \in {"none", "_is_no_results"} => sent[t] = <<>>

\* The tokens the iteration of thread t received before its request k.
OwnTokens(t, k) ==
    {recv[t][j].headers[RESUME_HEADER] : j \in {i \in 1..(k - 1) : CarriesToken(recv[t][i])}}

\* The resume its own caller passed, if any.
CallersResume(t) ==
    IF "resume" \in DOMAIN call[t].args.kwargs THEN {call[t].args.kwargs["resume"]} ELSE {}

\* The resumes of the iteration of thread t are tokens it received itself or,
\* with `callers`, the resume its caller passed.
ResumesAmong(t, callers) ==
    \A k \in 1..Len(sent[t]) :
        "resume" \in DOMAIN sent[t][k].params =>
            sent[t][k].params["resume"]
                \in OwnTokens(t, k) \cup (IF callers THEN CallersResume(t) ELSE {})

\* No step changes the client's collection identifier (its base URL is fixed).
ClientUnchanged == [][collection' = collection]_vars

\* C8 (as amended): under any interleaving of two calls on one client, each
\* call sends the requests and returns the results it does when run alone
\* against the same responses; each all_items iteration sends only resume
\* tokens it received itself or that its own caller passed as a keyword
\* argument; and no call changes the client's collection identifier or base URL.
C8_CallsIsolated ==
    /\ [](\A t \in Threads :
             /\ AsAlone(t)
             /\ IsIteration(t) => ResumesAmong(t, TRUE))
    /\ ClientUnchanged

\* C8 as stated: each iteration sends only resume tokens it received itself.
C8_Original ==
    /\ [](\A t \in Threads :
             /\ AsAlone(t)
             /\ IsIteration(t) => ResumesAmong(t, FALSE))
    /\ ClientUnchanged

\* Two iterations, advanced alternately, each on its second request, the
\* tokens they received different.
C8_Witness ==
    /\ IsIteration(1) /\ IsIteration(2)
    /\ call[1].pc = "awaiting" /\ call[2].pc = "awaiting"
    /\ Len(sent[1]) = 2 /\ Len(sent[2]) = 2
    /\ sent[1][2].params["resume"] = "abc"
    /\ sent[2][2].params["resume"] = "def"
    /\ call[1].args.kwargs # call[2].args.kwargs

\* Requests sent against pages pulled, at each place of the iteration.
OneRequestPerPage(t) ==
    /\ call[t].pc = "created" => sent[t] = <<>> /\ pages[t] = <<>>
    /\ call[t].pc = "awaiting" => Len(sent[t]) = Len(pages[t]) + 1
    /\ call[t].pc \in {"yielded", "done"} => Len(sent[t]) = Len(pages[t])
    /\ Len(recv[t]) = Len(pages[t])
    /\ \A k \in 1..Len(pages[t]) : pages[t][k] = recv[t][k].body

\* A request goes out only in a pull by the consumer, one request a pull.
RequestsOnlyOnPull(t) ==
    (IsIteration(t) /\ IsIteration(t)' /\ sent'[t] # sent[t]) =>
        /\ call[t].pc \in {"created", "yielded"}
        /\ call'[t].pc = "awaiting"
        /\ Len(sent'[t]) = Len(sent[t]) + 1

\* C9: all_items is lazy: calling it sends nothing, each pull of a page sends
\* exactly one request and yields that request's page, so the requests sent
\* equal the pages pulled (one more while a pull waits for its response), and
\* no request goes out until the consumer pulls again.
C9_Lazy ==
    /\ [](\A t \in Threads : IsIteration(t) => OneRequestPerPage(t))
    /\ [][\A t \in Threads : RequestsOnlyOnPull(t)]_vars

\* The consumer holds its second page: two requests sent, two pages pulled.
C9_Witness ==
    /\ IsIteration(1)
    /\ call[1].pc = "yielded"
    /\ Len(sent[1]) = 2
    /\ Len(pages[1]) = 2
    /\ CarriesToken(call[1].response)

\* Percent-encoding of a path segment: the reserved characters are escaped.
PathEscape(str) ==
    [i \in 1..Len(str) |->
        CASE str[i] = "/" -> "%2F"
          [] str[i] = "?" -> "%3F"
          [] str[i] = " " -> "%20"
          [] OTHER        -> str[i]]

\* The documented request of the call of thread t, its path built from the
\* path-escaped collection identifier and path arguments.
DocumentedRequest(t) ==
    LET a == call[t].args
        c == PathEscape(collection)
    IN  CASE call[t].op \in OverviewMethods ->
                 [method |-> "POST", url |-> API_BASE_URL \o c \o <<"/search/overview">>]
          [] call[t].op = "all_items" ->
                 [method |-> "POST", url |-> API_BASE_URL \o c \o <<"/search/result">>]
          [] call[t].op = "item" ->
                 [method |-> "GET",
                  url |-> API_BASE_URL \o c \o <<"/article/">> \o PathEscape(a.item_id)]
          [] call[t].op = "terms" ->
                 [method |-> "GET",
                  url |-> API_BASE_URL \o c \o <<"/terms/">> \o PathEscape(a.field)
                              \o <<"/">> \o PathEscape(a.aggregation)]

\* C10: each public method sends its request with the documented HTTP method
\* to the documented path, built from the path-escaped collection identifier
\* and path arguments; item sends one GET with no parameters and terms one
\* GET; item and terms return the parsed envelope unchanged.
C10_DocumentedEndpoints ==
    \A t \in Threads :
        call[t].op \in OverviewMethods \cup {"all_items", "item", "terms"} =>
            /\ \A k \in 1..Len(sent[t]) :
                   /\ sent[t][k].method = DocumentedRequest(t).method
                   /\ sent[t][k].url = DocumentedRequest(t).url
            /\ call[t].op = "item" =>
                   /\ Len(sent[t]) = 1
                   /\ sent[t][1].params = <<>>
            /\ call[t].op = "terms" => Len(sent[t]) = 1
            /\ (call[t].op \in {"item", "terms"} /\ call[t].pc = "returned") =>
                   outcome[t] = [kind |-> "return", type |-> "envelope",
                                 value |-> <<recv[t][1].body>>, reads |-> {}]

====
